---- MODULE Spec2Model ----
(***************************************************************************)
(* Model of NodeLocator (src/src/lnp/session/node_locator.rs): the closed  *)
(* set of locator variants, their equality and hash, accessors, URL        *)
(* serialisation and parsing, and the conversions to LocalAddr / NodeAddr. *)
(*                                                                         *)
(* Strings are sequences of tokens: the delimiters of the URL grammar      *)
(* (":", "//", "@", "/", "?", "=", "&", "#", "[", "]") are tokens of their *)
(* own, and every other maximal run of characters is one token.            *)
(* Option<T> is a sequence of length 0 (None) or 1 (Some).                 *)
(* Result<T,E> is [ok |-> TRUE, val |-> v] or [ok |-> FALSE, err |-> e].   *)
(***************************************************************************)
EXTENDS Integers, Sequences, FiniteSets, TLC

VARIABLES op, args, res

vars == <<op, args, res>>

\* Largest port number drawn for a locator or an input URL.
MaxPort == 2

None == <<>>
Some(x) == <<x>>
IsSome(o) == o # <<>>

Ok(v) == [ok |-> TRUE, val |-> v]
Err(kind, arg) == [ok |-> FALSE, err |-> [kind |-> kind, arg |-> arg]]
IsErr(r, kind) == (~r.ok) /\ r.err.kind = kind

----------------------------------------------------------------------------
(* Field types *)

\* secp256k1::PublicKey values (the two keys of the unit tests).
PublicKeys == {[parity |-> 2, x |-> 1], [parity |-> 3, x |-> 1]}

\* Display of a public key: its compressed hex form.
PubkeyDisplay(k) ==
    IF k.parity = 2
    THEN "022e58afe51f9ed8ad3cc7897f634d881fdbe49a81564629ded8156bebd2ffd1af"
    ELSE "032e58afe51f9ed8ad3cc7897f634d881fdbe49a81564629ded8156bebd2ffd1af"

\* secp256k1::PublicKey::from_str on a string.
PubkeyFromStr(str) ==
    IF Len(str) = 1 /\ \E k \in PublicKeys : PubkeyDisplay(k) = str[1]
    THEN Ok(CHOOSE k \in PublicKeys : PubkeyDisplay(k) = str[1])
    ELSE Err("InvalidPubkey", <<>>)

\* std::net::IpAddr values.
IpAddrs == {[v |-> "V4", n |-> 1], [v |-> "V4", n |-> 2], [v |-> "V6", n |-> 1]}

\* Display of an IpAddr: 127.0.0.n, or ::n without brackets.
IpDisplay(ip) ==
    IF ip.v = "V4"
    THEN (IF ip.n = 1 THEN <<"127.0.0.1">> ELSE <<"127.0.0.2">>)
    ELSE <<":", ":", "1">>

\* str::parse::<IpAddr>: brackets are not part of an address literal.
IpParse(str) ==
    IF \E ip \in IpAddrs : IpDisplay(ip) = str
    THEN Ok(CHOOSE ip \in IpAddrs : IpDisplay(ip) = str)
    ELSE Err("AddrParseError", <<>>)

\* InetAddr::from(IpAddr): the raw IP lifted into the internet address type.
InetFromIp(ip) == [t |-> IF ip.v = "V4" THEN "IPv4" ELSE "IPv6", n |-> ip.n]

InetAddrs == {InetFromIp(ip) : ip \in IpAddrs}

\* Display of an InetAddr.
InetDisplay(inet) ==
    IpDisplay([v |-> IF inet.t = "IPv4" THEN "V4" ELSE "V6", n |-> inet.n])

\* str::parse::<InetAddr>; its error converts into ParseError::InvalidHost.
InetParse(str) ==
    IF IpParse(str).ok
    THEN Ok(InetFromIp(IpParse(str).val))
    ELSE Err("InvalidHost", str)

\* zmqsocket::ApiType values the locator code names.
ApiTypes ==
    {"PeerListening", "PeerConnecting", "Client", "Server", "Subscribe",
     "EsbService"}

\* zmqsocket::ApiType::api_name
api_name(api) ==
    CASE api \in {"PeerListening", "PeerConnecting"} -> "p2p"
      [] api \in {"Client", "Server"} -> "rpc"
      [] api = "Subscribe" -> "sub"
      [] api = "EsbService" -> "esb"

Ports == 1..MaxPort
OptPorts == {None} \cup {Some(p) : p \in Ports}

\* File paths and socket names used for Posix, ZmqIpc and ZmqInproc.
Paths == {<<"./socket1">>, <<"/", "tmp", "/", "socket2">>}
Names == {<<"socket1">>, <<"socket2">>}

----------------------------------------------------------------------------
(* enum NodeLocator *)

Native(k, inet, port) ==
    [tag |-> "Native", pubkey |-> k, inet |-> inet, port |-> port]
Udp(k, ip, port) == [tag |-> "Udp", pubkey |-> k, ip |-> ip, port |-> port]
Posix(path) == [tag |-> "Posix", path |-> path]
ZmqIpc(path, api) == [tag |-> "ZmqIpc", path |-> path, api |-> api]
ZmqInproc(name, api) == [tag |-> "ZmqInproc", name |-> name, api |-> api]
ZmqTcpEncrypted(k, api, ip, port) ==
    [tag |-> "ZmqTcpEncrypted", pubkey |-> k, api |-> api, ip |-> ip,
     port |-> port]
ZmqTcpUnencrypted(api, ip, port) ==
    [tag |-> "ZmqTcpUnencrypted", api |-> api, ip |-> ip, port |-> port]
Http(k, inet, port) ==
    [tag |-> "Http", pubkey |-> k, inet |-> inet, port |-> port]
Websocket(k, inet, port) ==
    [tag |-> "Websocket", pubkey |-> k, inet |-> inet, port |-> port]
Text(k) == [tag |-> "Text", pubkey |-> k]

\* Every constructible locator over the field sets above.
NodeLocators ==
    {Native(k, i, p) : k \in PublicKeys, i \in InetAddrs, p \in OptPorts}
    \cup {Udp(k, i, p) : k \in PublicKeys, i \in IpAddrs, p \in OptPorts}
    \cup {Posix(f) : f \in Paths}
    \cup {ZmqIpc(f, t) : f \in Paths, t \in ApiTypes}
    \cup {ZmqInproc(n, t) : n \in Names, t \in ApiTypes}
    \cup UNION {{ZmqTcpEncrypted(k, t, i, p) : k \in PublicKeys, t \in ApiTypes} :
                  i \in IpAddrs, p \in OptPorts}
    \cup {ZmqTcpUnencrypted(t, i, p) : t \in ApiTypes, i \in IpAddrs, p \in OptPorts}
    \cup {Http(k, i, p) : k \in PublicKeys, i \in InetAddrs, p \in OptPorts}
    \cup {Websocket(k, i, p) : k \in PublicKeys, i \in InetAddrs, p \in OptPorts}
    \cup {Text(k) : k \in PublicKeys}

ZmqTags == {"ZmqIpc", "ZmqInproc", "ZmqTcpEncrypted", "ZmqTcpUnencrypted"}
PortTags ==
    {"Native", "Udp", "ZmqTcpEncrypted", "ZmqTcpUnencrypted", "Http",
     "Websocket"}

----------------------------------------------------------------------------
(* impl PartialEq for NodeLocator *)

\* Mutant of api_eq: the two rpc roles merged like the two p2p roles.
api_eq_rpc(x, y) ==
    \/ x = y
    \/ {x, y} = {"PeerListening", "PeerConnecting"}
    \/ {x, y} = {"Client", "Server"}

api_eq(x, y) ==
    \/ x = y
    \/ (x = "PeerListening" /\ y = "PeerConnecting")
    \/ (y = "PeerListening" /\ x = "PeerConnecting")

\* Mutant of eq: the fields compared without regard to the variant.
eq_ignores_variant(x, y) ==
    /\ DOMAIN x = DOMAIN y
    /\ \A f \in DOMAIN x \ {"tag", "api"} : x[f] = y[f]
    /\ ("api" \in DOMAIN x => api_eq(x.api, y.api))
    /\ x.tag # "Posix"

\* The match of eq: there is no arm for (Posix, Posix), so a pair of Posix
\* locators falls through to the catch-all arm.
eq(x, y) ==
    CASE x.tag = "Native" /\ y.tag = "Native" ->
            x.pubkey = y.pubkey /\ x.inet = y.inet /\ x.port = y.port
      [] x.tag = "Udp" /\ y.tag = "Udp" ->
            x.pubkey = y.pubkey /\ x.ip = y.ip /\ x.port = y.port
      [] x.tag = "Websocket" /\ y.tag = "Websocket" ->
            x.pubkey = y.pubkey /\ x.inet = y.inet /\ x.port = y.port
      [] x.tag = "ZmqIpc" /\ y.tag = "ZmqIpc" ->
            x.path = y.path /\ api_eq(x.api, y.api)
      [] x.tag = "ZmqInproc" /\ y.tag = "ZmqInproc" ->
            x.name = y.name /\ api_eq(x.api, y.api)
      [] x.tag = "ZmqTcpUnencrypted" /\ y.tag = "ZmqTcpUnencrypted" ->
            api_eq(x.api, y.api) /\ x.ip = y.ip /\ x.port = y.port
      [] x.tag = "ZmqTcpEncrypted" /\ y.tag = "ZmqTcpEncrypted" ->
            x.pubkey = y.pubkey /\ api_eq(x.api, y.api) /\ x.ip = y.ip
            /\ x.port = y.port
      [] x.tag = "Http" /\ y.tag = "Http" ->
            x.pubkey = y.pubkey /\ x.inet = y.inet /\ x.port = y.port
      [] x.tag = "Text" /\ y.tag = "Text" -> x.pubkey = y.pubkey
      [] OTHER -> FALSE

----------------------------------------------------------------------------
(* impl NodeLocator *)

\* Mutant of with_port: a port already present is kept.
with_port_keeps_existing(x, port) ==
    IF x.tag \in PortTags /\ x.port = None THEN [x EXCEPT !.port = Some(port)] ELSE x

with_port(x, port) ==
    IF x.tag \in PortTags THEN [x EXCEPT !.port = Some(port)] ELSE x

\* Mutant of url_scheme: Websocket shares the scheme of Http.
url_scheme_websocket_as_http(x) ==
    CASE x.tag = "Native" -> "lnp"
      [] x.tag = "Udp" -> "lnpu"
      [] x.tag = "Posix" -> "lnp"
      [] x.tag \in ZmqTags -> "lnpz"
      [] x.tag \in {"Http", "Websocket"} -> "lnph"
      [] x.tag = "Text" -> "lnpt"

url_scheme(x) ==
    CASE x.tag = "Native" -> "lnp"
      [] x.tag = "Udp" -> "lnpu"
      [] x.tag = "Posix" -> "lnp"
      [] x.tag \in ZmqTags -> "lnpz"
      [] x.tag = "Http" -> "lnph"
      [] x.tag = "Websocket" -> "lnpws"
      [] x.tag = "Text" -> "lnpt"

\* port.map(|x| format!(":{}", x)).unwrap_or_default()
PortSuffix(port) == IF IsSome(port) THEN <<":", ToString(port[1])>> ELSE <<>>

\* Mutant of ApiQuery: the role is written by its variant name.
ApiQuery_variant_name(api) == <<"?", "api", "=", api>>

ApiQuery(api) == <<"?", "api", "=", api_name(api)>>

to_url_string(x) ==
    CASE x.tag \in {"Native", "Http", "Websocket"} ->
            <<url_scheme(x), ":", "//", PubkeyDisplay(x.pubkey), "@">>
            \o InetDisplay(x.inet) \o PortSuffix(x.port)
      [] x.tag = "Udp" ->
            <<url_scheme(x), ":", "//", PubkeyDisplay(x.pubkey), "@">>
            \o IpDisplay(x.ip) \o PortSuffix(x.port)
      [] x.tag = "Posix" -> <<url_scheme(x), ":">> \o x.path
      [] x.tag = "ZmqIpc" -> <<url_scheme(x), ":">> \o x.path \o ApiQuery(x.api)
      [] x.tag = "ZmqInproc" ->
            <<url_scheme(x), ":">> \o ApiQuery(x.api) \o <<"#">> \o x.name
      [] x.tag = "ZmqTcpEncrypted" ->
            <<url_scheme(x), ":", "//", PubkeyDisplay(x.pubkey), "@">>
            \o IpDisplay(x.ip) \o PortSuffix(x.port) \o <<"/">> \o ApiQuery(x.api)
      [] x.tag = "ZmqTcpUnencrypted" ->
            <<url_scheme(x), ":", "//">> \o IpDisplay(x.ip) \o PortSuffix(x.port)
            \o <<"/">> \o ApiQuery(x.api)
      [] x.tag = "Text" -> <<url_scheme(x), ":", "//", PubkeyDisplay(x.pubkey)>>

\* Mutant of hash: the derived hash, fed with the variant and its fields.
hash_derived(x) == x

\* impl Hash: the bytes written to the hasher, which determine the hash.
hash(x) == to_url_string(x)

\* Mutant of components: the IP address of Udp is not lifted into the
\* address slot.
components_udp_no_addr(x) ==
    CASE x.tag \in {"Native", "Http", "Websocket"} ->
            <<Some(x.pubkey), Some(x.inet), x.port, None, None>>
      [] x.tag = "Udp" -> <<Some(x.pubkey), None, x.port, None, None>>
      [] x.tag = "Posix" -> <<None, None, None, Some(x.path), None>>
      [] x.tag = "ZmqIpc" -> <<None, None, None, Some(x.path), Some(x.api)>>
      [] x.tag = "ZmqInproc" -> <<None, None, None, Some(x.name), Some(x.api)>>
      [] x.tag = "ZmqTcpEncrypted" ->
            <<Some(x.pubkey), Some(InetFromIp(x.ip)), x.port, None, Some(x.api)>>
      [] x.tag = "ZmqTcpUnencrypted" ->
            <<None, Some(InetFromIp(x.ip)), x.port, None, Some(x.api)>>
      [] x.tag = "Text" -> <<Some(x.pubkey), None, None, None, None>>

\* (node id, inet address, port, file or socket name, api type)
components(x) ==
    CASE x.tag \in {"Native", "Http", "Websocket"} ->
            <<Some(x.pubkey), Some(x.inet), x.port, None, None>>
      [] x.tag = "Udp" ->
            <<Some(x.pubkey), Some(InetFromIp(x.ip)), x.port, None, None>>
      [] x.tag = "Posix" -> <<None, None, None, Some(x.path), None>>
      [] x.tag = "ZmqIpc" -> <<None, None, None, Some(x.path), Some(x.api)>>
      [] x.tag = "ZmqInproc" -> <<None, None, None, Some(x.name), Some(x.api)>>
      [] x.tag = "ZmqTcpEncrypted" ->
            <<Some(x.pubkey), Some(InetFromIp(x.ip)), x.port, None, Some(x.api)>>
      [] x.tag = "ZmqTcpUnencrypted" ->
            <<None, Some(InetFromIp(x.ip)), x.port, None, Some(x.api)>>
      [] x.tag = "Text" -> <<Some(x.pubkey), None, None, None, None>>

node_id(x) == components(x)[1]
inet_addr(x) == components(x)[2]
port(x) == components(x)[3]
socket_name(x) == components(x)[4]
api_type(x) == components(x)[5]

----------------------------------------------------------------------------
(* url::Url::parse for schemes that are not "special" (every lnp scheme)   *)

\* Index of the first token of str that is in toks, or Len(str) + 1.
FirstIn(str, toks) ==
    IF \E i \in 1..Len(str) : str[i] \in toks
    THEN CHOOSE i \in 1..Len(str) :
            str[i] \in toks /\ \A j \in 1..(i - 1) : str[j] \notin toks
    ELSE Len(str) + 1

\* Index of the last token of str that is in toks, or 0.
LastIn(str, toks) ==
    IF \E i \in 1..Len(str) : str[i] \in toks
    THEN CHOOSE i \in 1..Len(str) :
            str[i] \in toks /\ \A j \in (i + 1)..Len(str) : str[j] \notin toks
    ELSE 0

SeqFrom(str, i) == SubSeq(str, i, Len(str))

\* Tokens that are well-formed URL schemes (a letter, then letters/digits).
SchemeTokens ==
    {"lnp", "lnpu", "lnpz", "lnph", "lnpws", "lnpt", "http", "socket1",
     "socket2", "tmp", "api", "p2p", "rpc", "sub", "esb", "xyz", "P2P", "Rpc",
     "XYZ"}

\* The port of an authority: decimal digits that fit u16.
PortFromStr(tok) ==
    IF \E p \in 0..(MaxPort + 1) : ToString(p) = tok
    THEN Ok(CHOOSE p \in 0..(MaxPort + 1) : ToString(p) = tok)
    ELSE Err("InvalidPort", <<>>)

\* Host and port of an authority (after the userinfo was cut off).
\* A bracketed host must hold an IPv6 literal; otherwise the host ends at
\* the first ":" and what follows it is the port.
ParseHostPort(hp, hasUser) ==
    LET bracket == Len(hp) >= 1 /\ hp[1] = "["
        close == FirstIn(hp, {"]"})
        colon == FirstIn(hp, {":"})
        hostEnd == IF bracket THEN close ELSE colon - 1
        hostStr == SubSeq(hp, 1, hostEnd)
        after == SeqFrom(hp, hostEnd + 1)
        inner == SubSeq(hp, 2, close - 1)
        portR == IF Len(after) = 2 THEN PortFromStr(after[2])
                 ELSE Err("InvalidPort", <<>>)
    IN  IF bracket /\ (close > Len(hp) \/ ~IpParse(inner).ok
                       \/ IpParse(inner).val.v # "V6")
        THEN Err("InvalidIpv6Address", <<>>)
        ELSE IF (~bracket) /\ (\E i \in 1..Len(hostStr) : hostStr[i] \in {"[", "]"})
        THEN Err("InvalidDomainCharacter", <<>>)
        ELSE IF hostStr = <<>> /\ (hasUser \/ after # <<>>)
        THEN Err("EmptyHost", <<>>)
        ELSE IF Len(after) > 2 \/ (Len(after) >= 1 /\ after[1] # ":")
                \/ (Len(after) = 2 /\ ~portR.ok)
        THEN Err("InvalidPort", <<>>)
        ELSE Ok([host |-> IF hostStr = <<>> THEN None ELSE Some(hostStr),
                 port |-> IF Len(after) = 2 THEN Some(portR.val) ELSE None])

\* Url::parse(str): scheme, then "//" authority, path, "?" query, "#" fragment.
UrlParse(str) ==
    LET rest == SeqFrom(str, 3)
        hashAt == FirstIn(rest, {"#"})
        noFrag == SubSeq(rest, 1, hashAt - 1)
        fragment == IF hashAt <= Len(rest) THEN Some(SeqFrom(rest, hashAt + 1)) ELSE None
        qAt == FirstIn(noFrag, {"?"})
        hier == SubSeq(noFrag, 1, qAt - 1)
        query == IF qAt <= Len(noFrag) THEN Some(SeqFrom(noFrag, qAt + 1)) ELSE None
        hasAuth == Len(hier) >= 1 /\ hier[1] = "//"
        afterSl == SeqFrom(hier, 2)
        pathAt == FirstIn(afterSl, {"/", "//"})
        authority == SubSeq(afterSl, 1, pathAt - 1)
        atAt == LastIn(authority, {"@"})
        userinfo == SubSeq(authority, 1, atAt - 1)
        username == SubSeq(userinfo, 1, FirstIn(userinfo, {":"}) - 1)
        hp == ParseHostPort(SeqFrom(authority, atAt + 1), atAt > 0)
    IN  IF ~(Len(str) >= 2 /\ str[1] \in SchemeTokens /\ str[2] = ":")
        THEN Err("RelativeUrlWithoutBase", <<>>)
        ELSE IF hasAuth
        THEN IF ~hp.ok THEN hp
             ELSE Ok([scheme |-> str[1], username |-> username,
                      host |-> hp.val.host, port |-> hp.val.port,
                      path |-> SeqFrom(afterSl, pathAt), query |-> query,
                      fragment |-> fragment])
        ELSE Ok([scheme |-> str[1], username |-> <<>>, host |-> None,
                 port |-> None, path |-> hier, query |-> query,
                 fragment |-> fragment])

\* Url::query_pairs: the "&"-separated key=value pairs of the query.
RECURSIVE QueryPairsOf(_)
QueryPairsOf(q) ==
    IF q = <<>> THEN <<>>
    ELSE LET ampAt == FirstIn(q, {"&"})
             pair == SubSeq(q, 1, ampAt - 1)
             eqAt == FirstIn(pair, {"="})
             kv == [key |-> SubSeq(pair, 1, eqAt - 1), val |-> SeqFrom(pair, eqAt + 1)]
         IN  (IF pair = <<>> THEN <<>> ELSE <<kv>>) \o QueryPairsOf(SeqFrom(q, ampAt + 1))

query_pairs(url) == IF IsSome(url.query) THEN QueryPairsOf(url.query[1]) ELSE <<>>

\* str::to_ascii_lowercase on a token.
LowerToken(tok) ==
    CASE tok = "P2P" -> "p2p"
      [] tok = "Rpc" -> "rpc"
      [] tok = "XYZ" -> "xyz"
      [] OTHER -> tok

to_ascii_lowercase(str) == [i \in 1..Len(str) |-> LowerToken(str[i])]

----------------------------------------------------------------------------
(* impl TryFrom<Url> for NodeLocator, impl FromStr for NodeLocator *)

\* The first value of the query pair whose key is "api" (find_map).
ApiParam(url) ==
    LET hits == SelectSeq(query_pairs(url), LAMBDA kv : kv.key = <<"api">>)
    IN  IF hits = <<>> THEN None ELSE Some(hits[1].val)

\* Mutant of ZmqTypeOf: p2p is decoded as the listening role.
ZmqTypeOf_listening(val) ==
    CASE val = <<"p2p">> -> Ok("PeerListening")
      [] val = <<"rpc">> -> Ok("Client")
      [] val = <<"sub">> -> Ok("Subscribe")
      [] val = <<"esb">> -> Ok("EsbService")
      [] OTHER -> Err("InvalidZmqType", val)

\* Mutant of ZmqTypeOf: the error does not carry the unknown token.
ZmqTypeOf_no_token(val) ==
    CASE val = <<"p2p">> -> Ok("PeerConnecting")
      [] val = <<"rpc">> -> Ok("Client")
      [] val = <<"sub">> -> Ok("Subscribe")
      [] val = <<"esb">> -> Ok("EsbService")
      [] OTHER -> Err("InvalidZmqType", <<>>)

\* The match on the lower-cased api value.
ZmqTypeOf(val) ==
    CASE val = <<"p2p">> -> Ok("PeerConnecting")
      [] val = <<"rpc">> -> Ok("Client")
      [] val = <<"sub">> -> Ok("Subscribe")
      [] val = <<"esb">> -> Ok("EsbService")
      [] OTHER -> Err("InvalidZmqType", val)

\* Arms "lnp", "lnph", "lnpws": pubkey?, host.ok_or(HostRequired)?, parse?.
InetArm(tag, pubkey, host, prt) ==
    IF ~pubkey.ok THEN Err("InvalidPubkey", <<>>)
    ELSE IF host = None THEN Err("HostRequired", <<>>)
    ELSE IF ~InetParse(host[1]).ok THEN InetParse(host[1])
    ELSE Ok([tag |-> tag, pubkey |-> pubkey.val, inet |-> InetParse(host[1]).val,
             port |-> prt])

\* Mutant of UdpArm: a host that is no IP address is reported as InvalidIp.
UdpArm_invalid_ip(pubkey, ip, prt) ==
    IF ~pubkey.ok THEN Err("InvalidPubkey", <<>>)
    ELSE IF ip = None THEN Err("HostRequired", <<>>)
    ELSE IF ~ip[1].ok THEN Err("InvalidIp", <<>>)
    ELSE Ok(Udp(pubkey.val, ip[1].val, prt))

\* Arm "lnpu": pubkey?, ip.ok_or(HostRequired)??; the error of ip is the
\* InvalidHost(host) built before the match.
UdpArm(pubkey, ip, prt) ==
    IF ~pubkey.ok THEN Err("InvalidPubkey", <<>>)
    ELSE IF ip = None THEN Err("HostRequired", <<>>)
    ELSE IF ~ip[1].ok THEN ip[1]
    ELSE Ok(Udp(pubkey.val, ip[1].val, prt))

\* Mutant of ZmqArm: an invalid key in the userinfo is ignored.
ZmqArm_ignores_bad_key(url, pubkey, ip, prt) ==
    LET api == ApiParam(url)
        zmq_type == ZmqTypeOf(to_ascii_lowercase(api[1]))
    IN  IF api = None THEN Err("ApiTypeRequired", <<>>)
        ELSE IF ~zmq_type.ok THEN zmq_type
        ELSE IF IsSome(ip) /\ ~ip[1].ok THEN Err("InvalidIp", <<>>)
        ELSE IF IsSome(ip) /\ pubkey.ok
        THEN Ok(ZmqTcpEncrypted(pubkey.val, zmq_type.val, ip[1].val, prt))
        ELSE IF IsSome(ip) THEN Ok(ZmqTcpUnencrypted(zmq_type.val, ip[1].val, prt))
        ELSE IF url.path = <<>> THEN Err("InprocRequireZmqContext", <<>>)
        ELSE Ok(ZmqIpc(url.path, zmq_type.val))

\* Mutant of ZmqArm: an empty path with a fragment yields the in-process
\* locator named by the fragment.
ZmqArm_inproc_from_fragment(url, pubkey, ip, prt) ==
    LET api == ApiParam(url)
        zmq_type == ZmqTypeOf(to_ascii_lowercase(api[1]))
    IN  IF api = None THEN Err("ApiTypeRequired", <<>>)
        ELSE IF ~zmq_type.ok THEN zmq_type
        ELSE IF IsSome(ip) /\ ~ip[1].ok THEN Err("InvalidIp", <<>>)
        ELSE IF (~pubkey.ok) /\ url.username # <<>> THEN Err("InvalidIp", <<>>)
        ELSE IF IsSome(ip) /\ pubkey.ok
        THEN Ok(ZmqTcpEncrypted(pubkey.val, zmq_type.val, ip[1].val, prt))
        ELSE IF IsSome(ip) THEN Ok(ZmqTcpUnencrypted(zmq_type.val, ip[1].val, prt))
        ELSE IF url.path = <<>> /\ IsSome(url.fragment)
        THEN Ok(ZmqInproc(url.fragment[1], zmq_type.val))
        ELSE IF url.path = <<>> THEN Err("InprocRequireZmqContext", <<>>)
        ELSE Ok(ZmqIpc(url.path, zmq_type.val))

\* Arm "lnpz".
ZmqArm(url, pubkey, ip, prt) ==
    LET api == ApiParam(url)
        zmq_type == ZmqTypeOf(to_ascii_lowercase(api[1]))
    IN  IF api = None THEN Err("ApiTypeRequired", <<>>)
        ELSE IF ~zmq_type.ok THEN zmq_type
        ELSE IF IsSome(ip) /\ ~ip[1].ok THEN Err("InvalidIp", <<>>)
        ELSE IF (~pubkey.ok) /\ url.username # <<>> THEN Err("InvalidIp", <<>>)
        ELSE IF IsSome(ip) /\ pubkey.ok
        THEN Ok(ZmqTcpEncrypted(pubkey.val, zmq_type.val, ip[1].val, prt))
        ELSE IF IsSome(ip) THEN Ok(ZmqTcpUnencrypted(zmq_type.val, ip[1].val, prt))
        ELSE IF url.path = <<>> THEN Err("InprocRequireZmqContext", <<>>)
        ELSE Ok(ZmqIpc(url.path, zmq_type.val))

\* Mutant of TextArm: the port is checked before the userinfo.
TextArm_port_first(pubkey, host, prt) ==
    IF IsSome(prt) THEN Err("PortPresent", <<>>)
    ELSE IF pubkey.ok THEN Err("HostPresent", <<>>)
    ELSE IF IsSome(host)
    THEN (IF PubkeyFromStr(host[1]).ok THEN Ok(Text(PubkeyFromStr(host[1]).val))
          ELSE Err("InvalidPubkey", <<>>))
    ELSE Err("InvalidPubkey", <<>>)

\* Arm "lnpt": the key of the userinfo rejects, then the port, then the
\* host is read as the key.
TextArm(pubkey, host, prt) ==
    IF pubkey.ok THEN Err("HostPresent", <<>>)
    ELSE IF IsSome(prt) THEN Err("PortPresent", <<>>)
    ELSE IF IsSome(host)
    THEN (IF PubkeyFromStr(host[1]).ok THEN Ok(Text(PubkeyFromStr(host[1]).val))
          ELSE Err("InvalidPubkey", <<>>))
    ELSE Err("InvalidPubkey", <<>>)

try_from_url(url) ==
    LET pubkey == PubkeyFromStr(url.username)
        host == url.host
        ip == IF IsSome(host)
              THEN Some(IF IpParse(host[1]).ok THEN IpParse(host[1])
                        ELSE Err("InvalidHost", host[1]))
              ELSE None
        prt == url.port
    IN  CASE url.scheme = "lnp" -> InetArm("Native", pubkey, host, prt)
          [] url.scheme = "lnpu" -> UdpArm(pubkey, ip, prt)
          [] url.scheme = "lnph" -> InetArm("Http", pubkey, host, prt)
          [] url.scheme = "lnpws" -> InetArm("Websocket", pubkey, host, prt)
          [] url.scheme = "lnpz" -> ZmqArm(url, pubkey, ip, prt)
          [] url.scheme = "lnpt" -> TextArm(pubkey, host, prt)
          [] OTHER -> Err("UnknownUrlScheme", <<url.scheme>>)

\* Display for Url: the serialization of a parsed URL (a URL with an
\* authority has a host here).
UrlDisplay(url) ==
    <<url.scheme, ":">>
    \o (IF IsSome(url.host)
        THEN <<"//">> \o (IF url.username # <<>> THEN url.username \o <<"@">> ELSE <<>>)
             \o url.host[1] \o PortSuffix(url.port)
        ELSE <<>>)
    \o url.path
    \o (IF IsSome(url.query) THEN <<"?">> \o url.query[1] ELSE <<>>)
    \o (IF IsSome(url.fragment) THEN <<"#">> \o url.fragment[1] ELSE <<>>)

\* A call that does not return: Option::expect on None.
Panic(msg) == [ok |-> FALSE, panic |-> msg]

\* impl From<&NodeLocator> for Url
url_from(x) ==
    IF UrlParse(to_url_string(x)).ok
    THEN Ok(UrlParse(to_url_string(x)).val)
    ELSE Panic("Internal URL construction error")

\* impl Display for NodeLocator: the text written, or the panic.
fmt(x, alternate) ==
    IF alternate
    THEN LET id == IF IsSome(node_id(x)) THEN <<PubkeyDisplay(node_id(x)[1])>> ELSE <<>>
             api == IF IsSome(api_type(x)) THEN ApiQuery(api_type(x)[1]) ELSE <<>>
         IN  IF IsSome(inet_addr(x))
             THEN Ok(id \o <<"@">> \o InetDisplay(inet_addr(x)[1])
                     \o PortSuffix(port(x)) \o api)
             ELSE IF socket_name(x) = None
             THEN Panic("Socket name is always known if internet address is not given")
             ELSE Ok(id \o socket_name(x)[1] \o api)
    ELSE IF url_from(x).ok THEN Ok(UrlDisplay(url_from(x).val)) ELSE url_from(x)

\* The prefixes from_str looks for with starts_with.
SchemePrefixes == {"lnp", "lnpu", "lnpz", "lnpws", "lnpt", "lnph"}

HasSchemePrefix(str) == Len(str) >= 2 /\ str[1] \in SchemePrefixes /\ str[2] = ":"

\* Mutant of from_str: the prefix put in front of a bare string is "lnp:".
from_str_no_slashes(str) ==
    LET s2 == IF HasSchemePrefix(str) THEN str ELSE <<"lnp", ":">> \o str
        url == UrlParse(s2)
    IN  IF ~url.ok THEN Err("MalformedUrl", <<>>) ELSE try_from_url(url.val)

\* Mutant of from_str: a string that starts with any scheme is parsed as it is.
from_str_any_scheme(str) ==
    LET hasScheme == Len(str) >= 2 /\ str[1] \in SchemeTokens /\ str[2] = ":"
        s2 == IF hasScheme THEN str ELSE <<"lnp", ":", "//">> \o str
        url == UrlParse(s2)
    IN  IF ~url.ok THEN Err("MalformedUrl", <<>>) ELSE try_from_url(url.val)

from_str(str) ==
    LET s2 == IF HasSchemePrefix(str) THEN str ELSE <<"lnp", ":", "//">> \o str
        url == UrlParse(s2)
    IN  IF ~url.ok THEN Err("MalformedUrl", <<>>) ELSE try_from_url(url.val)

----------------------------------------------------------------------------
(* Conversions *)

SocketAddrNew(ip, prt) == [ip |-> ip, port |-> prt]

\* Mutant of local_addr_try_from: the TCP arm does not ask for a port.
local_addr_any_port(x) ==
    CASE x.tag = "Posix" -> Ok([tag |-> "Posix", path |-> x.path])
      [] x.tag = "ZmqIpc" -> Ok([tag |-> "Zmq", loc |-> [tag |-> "Ipc", path |-> x.path]])
      [] x.tag = "ZmqInproc" ->
            Ok([tag |-> "Zmq", loc |-> [tag |-> "Inproc", name |-> x.name]])
      [] x.tag = "ZmqTcpUnencrypted" ->
            Ok([tag |-> "Zmq",
                loc |-> [tag |-> "Tcp",
                         addr |-> SocketAddrNew(x.ip, IF IsSome(x.port) THEN x.port[1]
                                                      ELSE 0)]])
      [] OTHER -> Err("UnsupportedForLocalAddr", <<>>)

\* Mutant of local_addr_try_from: a locator with the listening role is not
\* converted.
local_addr_listening_fails(x) ==
    CASE "api" \in DOMAIN x /\ x.api = "PeerListening" ->
            Err("UnsupportedForLocalAddr", <<>>)
      [] x.tag = "Posix" -> Ok([tag |-> "Posix", path |-> x.path])
      [] x.tag = "ZmqIpc" -> Ok([tag |-> "Zmq", loc |-> [tag |-> "Ipc", path |-> x.path]])
      [] x.tag = "ZmqInproc" ->
            Ok([tag |-> "Zmq", loc |-> [tag |-> "Inproc", name |-> x.name]])
      [] x.tag = "ZmqTcpUnencrypted" /\ IsSome(x.port) ->
            Ok([tag |-> "Zmq",
                loc |-> [tag |-> "Tcp", addr |-> SocketAddrNew(x.ip, x.port[1])]])
      [] OTHER -> Err("UnsupportedForLocalAddr", <<>>)

\* impl TryFrom<NodeLocator> for LocalAddr
local_addr_try_from(x) ==
    CASE x.tag = "Posix" -> Ok([tag |-> "Posix", path |-> x.path])
      [] x.tag = "ZmqIpc" -> Ok([tag |-> "Zmq", loc |-> [tag |-> "Ipc", path |-> x.path]])
      [] x.tag = "ZmqInproc" ->
            Ok([tag |-> "Zmq", loc |-> [tag |-> "Inproc", name |-> x.name]])
      [] x.tag = "ZmqTcpUnencrypted" /\ IsSome(x.port) ->
            Ok([tag |-> "Zmq",
                loc |-> [tag |-> "Tcp", addr |-> SocketAddrNew(x.ip, x.port[1])]])
      [] OTHER -> Err("UnsupportedForLocalAddr", <<>>)

\* Resolved remote addresses: a node id with an Ftcp or a Zmq endpoint.
NodeAddrs ==
    {[node_id |-> k,
      remote_addr |-> [tag |-> "Ftcp", addr |-> [address |-> i, port |-> p]]] :
        k \in PublicKeys, i \in InetAddrs, p \in Ports}
    \cup {[node_id |-> k,
           remote_addr |-> [tag |-> "Zmq", addr |-> SocketAddrNew(i, p)]] :
            k \in PublicKeys, i \in IpAddrs, p \in Ports}

\* Mutant of node_addr_try_from: a missing port reported as UnsupportedType.
node_addr_no_noport(x) ==
    CASE x.tag = "Native" /\ IsSome(x.port) ->
            Ok([node_id |-> x.pubkey,
                remote_addr |-> [tag |-> "Ftcp",
                                 addr |-> [address |-> x.inet, port |-> x.port[1]]]])
      [] x.tag = "ZmqTcpEncrypted" /\ IsSome(x.port) ->
            Ok([node_id |-> x.pubkey,
                remote_addr |-> [tag |-> "Zmq",
                                 addr |-> SocketAddrNew(x.ip, x.port[1])]])
      [] OTHER -> Err("UnsupportedType", <<>>)

\* impl TryFrom<NodeLocator> for NodeAddr
node_addr_try_from(x) ==
    CASE x.tag = "Native" /\ IsSome(x.port) ->
            Ok([node_id |-> x.pubkey,
                remote_addr |-> [tag |-> "Ftcp",
                                 addr |-> [address |-> x.inet, port |-> x.port[1]]]])
      [] x.tag = "ZmqTcpEncrypted" /\ IsSome(x.port) ->
            Ok([node_id |-> x.pubkey,
                remote_addr |-> [tag |-> "Zmq",
                                 addr |-> SocketAddrNew(x.ip, x.port[1])]])
      [] x.tag \in {"Native", "ZmqTcpEncrypted"} -> Err("NoPort", <<>>)
      [] OTHER -> Err("UnsupportedType", <<>>)

\* Mutant of node_locator_from: the port of the endpoint is dropped.
node_locator_from_no_port(n) ==
    IF n.remote_addr.tag = "Ftcp"
    THEN Native(n.node_id, n.remote_addr.addr.address, None)
    ELSE ZmqTcpEncrypted(n.node_id, "PeerConnecting", n.remote_addr.addr.ip, None)

\* impl From<NodeAddr> for NodeLocator
node_locator_from(n) ==
    IF n.remote_addr.tag = "Ftcp"
    THEN Native(n.node_id, n.remote_addr.addr.address, Some(n.remote_addr.addr.port))
    ELSE ZmqTcpEncrypted(n.node_id, "PeerConnecting", n.remote_addr.addr.ip,
                         Some(n.remote_addr.addr.port))

----------------------------------------------------------------------------
(* Input strings for parsing *)

Key1 == PubkeyDisplay([parity |-> 2, x |-> 1])

InUsers == {<<>>, <<Key1, "@">>, <<"nokey", "@">>}
InHosts ==
    {<<"127.0.0.1">>, <<Key1>>, <<"6zdgh5a5e6zpchdz">>, <<"[", ":", ":", "1", "]">>}
InPorts == {<<>>} \cup {<<":", ToString(p)>> : p \in Ports}
InPaths == {<<>>, <<"/">>}
InQueries ==
    {<<>>} \cup {<<"?", "api", "=", v>> : v \in {"p2p", "rpc", "sub", "esb", "xyz", "P2P", "XYZ"}}
    \cup {<<"?", "tmp", "=", "p2p">>, <<"?", "tmp", "=", "xyz", "&", "api", "=", "Rpc">>}

\* scheme://[user@]host[:port][/][?query]
AuthorityStrings ==
    UNION {{<<sch, ":", "//">> \o u \o h \o p \o f \o q :
                sch \in SchemePrefixes, u \in InUsers, h \in InHosts} :
            p \in InPorts, f \in InPaths, q \in InQueries}

\* scheme:[path][?query][#name]
OpaqueStrings ==
    UNION {{<<sch, ":">> \o f \o q \o g :
                sch \in SchemePrefixes, f \in Paths \cup {<<>>}} :
            q \in InQueries, g \in {<<>>, <<"#", "socket1">>}}

\* [user@]host[:port] without a scheme, and strings with a foreign one
BareStrings ==
    {u \o h \o p : u \in InUsers, h \in InHosts, p \in InPorts}
    \cup {<<"http", ":", "//", Key1, "@", "127.0.0.1">>, <<"http", ":", "socket1">>,
          <<"xyz", ":", "//", Key1, "@", "127.0.0.1", ":", "1">>, <<>>}

InputStrings ==
    AuthorityStrings \cup OpaqueStrings \cup BareStrings
    \cup {to_url_string(x) : x \in NodeLocators}

----------------------------------------------------------------------------
(* The operations as actions.  Init draws the inputs of one call; each     *)
(* action applies one operation to them and records the result.            *)

\* The URLs TryFrom<Url> is called with: every input string that is a URL.
InputUrls == {UrlParse(str).val : str \in {s \in InputStrings : UrlParse(s).ok}}

Inputs ==
    {[kind |-> "pair", a |-> x, b |-> y] : x \in NodeLocators, y \in NodeLocators}
    \cup {[kind |-> "loc", a |-> x, port |-> p] : x \in NodeLocators, p \in Ports}
    \cup {[kind |-> "str", s |-> str] : str \in InputStrings}
    \cup {[kind |-> "url", u |-> u] : u \in InputUrls}
    \cup {[kind |-> "node_addr", n |-> n] : n \in NodeAddrs}

Init == op = "input" /\ args \in Inputs /\ res = <<>>

\* a == b
Eq ==
    /\ op = "input" /\ args.kind = "pair"
    /\ op' = "eq"
    /\ res' = eq(args.a, args.b)
    /\ UNCHANGED args

\* a.hash(state)
Hash ==
    /\ op = "input" /\ args.kind = "loc"
    /\ op' = "hash"
    /\ res' = hash(args.a)
    /\ UNCHANGED args

\* a.with_port(port)
WithPort ==
    /\ op = "input" /\ args.kind = "loc"
    /\ op' = "with_port"
    /\ res' = with_port(args.a, args.port)
    /\ UNCHANGED args

\* a.to_url_string()
ToUrlString ==
    /\ op = "input" /\ args.kind = "loc"
    /\ op' = "to_url_string"
    /\ res' = to_url_string(args.a)
    /\ UNCHANGED args

\* a.components()
Components ==
    /\ op = "input" /\ args.kind = "loc"
    /\ op' = "components"
    /\ res' = components(args.a)
    /\ UNCHANGED args

\* NodeLocator::from_str(s)
FromStr ==
    /\ op = "input" /\ args.kind = "str"
    /\ op' = "from_str"
    /\ res' = from_str(args.s)
    /\ UNCHANGED args

\* NodeLocator::try_from(url)
TryFromUrl ==
    /\ op = "input" /\ args.kind = "url"
    /\ op' = "try_from_url"
    /\ res' = try_from_url(args.u)
    /\ UNCHANGED args

\* format!("{}", a)
Fmt ==
    /\ op = "input" /\ args.kind = "loc"
    /\ op' = "fmt"
    /\ res' = fmt(args.a, FALSE)
    /\ UNCHANGED args

\* format!("{:#}", a)
FmtAlternate ==
    /\ op = "input" /\ args.kind = "loc"
    /\ op' = "fmt_alternate"
    /\ res' = fmt(args.a, TRUE)
    /\ UNCHANGED args

\* LocalAddr::try_from(a)
ToLocalAddr ==
    /\ op = "input" /\ args.kind = "loc"
    /\ op' = "local_addr"
    /\ res' = local_addr_try_from(args.a)
    /\ UNCHANGED args

\* NodeAddr::try_from(a)
ToNodeAddr ==
    /\ op = "input" /\ args.kind = "loc"
    /\ op' = "node_addr"
    /\ res' = node_addr_try_from(args.a)
    /\ UNCHANGED args

\* NodeLocator::from(node_addr)
FromNodeAddr ==
    /\ op = "input" /\ args.kind = "node_addr"
    /\ op' = "from_node_addr"
    /\ res' = node_locator_from(args.n)
    /\ UNCHANGED args

Next ==
    \/ Eq
    \/ Hash
    \/ WithPort
    \/ ToUrlString
    \/ Components
    \/ FromStr
    \/ TryFromUrl
    \/ Fmt
    \/ FmtAlternate
    \/ ToLocalAddr
    \/ ToNodeAddr
    \/ FromNodeAddr

Spec == Init /\ [][Next]_vars

----------------------------------------------------------------------------
(* Properties *)

QueueTags == ZmqTags
NoPortTags == {"Text", "Posix", "ZmqIpc", "ZmqInproc"}

\* The locators whose serialisation is the string str.
SerializedAs(str) == {v \in NodeLocators : to_url_string(v) = str}

\* C1: round trip. For every locator v of a variant other than ZmqInproc,
\* from_str(to_url_string(v)) succeeds and yields a locator equal to v.
C1_RoundTrip ==
    op = "from_str" =>
        \A v \in SerializedAs(args.s) :
            v.tag # "ZmqInproc" => (res.ok /\ eq(res.val, v))

\* C2: hash consistency. Whenever a == b, the bytes both locators feed to the
\* hasher are the same, so hash(a) == hash(b).
C2_HashConsistent ==
    (op = "eq" /\ res = TRUE) => hash(args.a) = hash(args.b)

C2_Witness ==
    /\ op = "eq" /\ res = TRUE
    /\ args.a.tag = "ZmqTcpEncrypted"
    /\ args.a.api = "PeerListening" /\ args.b.api = "PeerConnecting"
    /\ hash(args.a) = hash(args.b)

\* Locators of one variant that agree on every field but the role.
SameButRole(x, y) ==
    x.tag \in QueueTags /\ x.tag = y.tag /\ [x EXCEPT !.api = y.api] = y

\* C3: role-merged equality. Two locators of the same queue variant with
\* identical other fields are equal exactly when their roles are identical or
\* are listening and connecting.
C3_RoleMergedEq ==
    (op = "eq" /\ SameButRole(args.a, args.b)) =>
        (res <=> (\/ args.a.api = args.b.api
                  \/ {args.a.api, args.b.api} = {"PeerListening", "PeerConnecting"}))

C3_Witness ==
    /\ op = "eq" /\ SameButRole(args.a, args.b)
    /\ args.a.tag = "ZmqIpc"
    /\ args.a.api = "PeerConnecting" /\ args.b.api = "PeerListening"
    /\ res = TRUE

\* C4: locators of different variants are never equal, even when components()
\* gives the same 5-tuple for both.
C4_VariantsNeverEqual ==
    (op = "eq" /\ args.a.tag # args.b.tag) => res = FALSE

C4_Witness ==
    /\ op = "eq" /\ args.a.tag # args.b.tag
    /\ components(args.a) = components(args.b)
    /\ res = FALSE

\* C5: NodeAddr::try_from succeeds for Native and ZmqTcpEncrypted exactly when
\* the port is present and fails with NoPort when it is absent; for every other
\* variant it fails with UnsupportedType, with or without a port.
C5_ToNodeAddr ==
    op = "node_addr" =>
        IF args.a.tag \in {"Native", "ZmqTcpEncrypted"}
        THEN /\ res.ok <=> IsSome(port(args.a))
             /\ (~IsSome(port(args.a))) => IsErr(res, "NoPort")
        ELSE IsErr(res, "UnsupportedType")

C5_Witness ==
    /\ op = "node_addr"
    /\ args.a.tag = "ZmqTcpEncrypted" /\ port(args.a) = None
    /\ IsErr(res, "NoPort")

\* C6: LocalAddr::try_from succeeds exactly for Posix, ZmqIpc, ZmqInproc and
\* ZmqTcpUnencrypted with a port; every other locator, ZmqTcpUnencrypted
\* without a port included, fails with UnsupportedForLocalAddr.
C6_ToLocalAddr ==
    op = "local_addr" =>
        /\ res.ok <=> (\/ args.a.tag \in {"Posix", "ZmqIpc", "ZmqInproc"}
                       \/ (args.a.tag = "ZmqTcpUnencrypted" /\ IsSome(port(args.a))))
        /\ (~res.ok) => IsErr(res, "UnsupportedForLocalAddr")

C6_Witness ==
    /\ op = "local_addr"
    /\ args.a.tag = "ZmqTcpUnencrypted" /\ port(args.a) = None
    /\ IsErr(res, "UnsupportedForLocalAddr")

\* C7: NodeLocator::from(node_addr) yields a Native or ZmqTcpEncrypted locator
\* with the port present, distinct remote addresses yield unequal locators, and
\* NodeAddr::try_from of the result returns the original address.
C7_FromNodeAddr ==
    op = "from_node_addr" =>
        /\ res.tag \in {"Native", "ZmqTcpEncrypted"}
        /\ IsSome(port(res))
        /\ \A m \in NodeAddrs : m # args.n => ~eq(node_locator_from(m), res)
        /\ node_addr_try_from(res) = Ok(args.n)

C7_Witness ==
    /\ op = "from_node_addr"
    /\ args.n.remote_addr.tag = "Zmq"
    /\ res.tag = "ZmqTcpEncrypted"
    /\ node_addr_try_from(res) = Ok(args.n)

\* C8: with_port is idempotent under ==, and on Text, Posix, ZmqIpc and
\* ZmqInproc the result is == to the original, has no port and serialises to
\* the same string.
C8_WithPortIdempotentNoop ==
    op = "with_port" =>
        /\ eq(with_port(res, args.port), res)
        /\ args.a.tag \in NoPortTags =>
              /\ eq(res, args.a)
              /\ port(res) = None
              /\ to_url_string(res) = to_url_string(args.a)

\* The parsed URL of an input string that from_str hands to try_from.
UrlOf(str) ==
    UrlParse(IF HasSchemePrefix(str) THEN str ELSE <<"lnp", ":", "//">> \o str)

IsSchemeUrl(str, scheme) == UrlOf(str).ok /\ UrlOf(str).val.scheme = scheme

\* The userinfo of the URL is a valid node id.
UserIsKey(str) == PubkeyFromStr(UrlOf(str).val.username).ok

\* What an lnpt URL yields when it is accepted: the Text locator of the key in
\* its host field, and the URL has no key in the userinfo and no port.
TextOnlyFromBareKey ==
    res.ok =>
        /\ res.val.tag = "Text"
        /\ <<PubkeyDisplay(res.val.pubkey)>> = UrlOf(args.s).val.host[1]
        /\ ~UserIsKey(args.s)
        /\ UrlOf(args.s).val.port = None

\* C9 as stated: an lnpt URL fails with HostPresent whenever it carries a host
\* besides the node id, fails with PortPresent whenever it carries a port, and
\* yields Text only with a valid node id and neither host address nor port.
C9_TextParse_Original ==
    (op = "from_str" /\ IsSchemeUrl(args.s, "lnpt")) =>
        /\ (UserIsKey(args.s) /\ IsSome(UrlOf(args.s).val.host))
              => IsErr(res, "HostPresent")
        /\ IsSome(UrlOf(args.s).val.port) => IsErr(res, "PortPresent")
        /\ TextOnlyFromBareKey

\* C9 amended: HostPresent whenever the userinfo is a valid node id (also when
\* a port is present); PortPresent whenever a port is present and the userinfo
\* is no valid node id; Text only from a bare key without port.
C9_TextParse ==
    (op = "from_str" /\ IsSchemeUrl(args.s, "lnpt")) =>
        /\ (UserIsKey(args.s) /\ IsSome(UrlOf(args.s).val.host))
              => IsErr(res, "HostPresent")
        /\ (IsSome(UrlOf(args.s).val.port) /\ ~UserIsKey(args.s))
              => IsErr(res, "PortPresent")
        /\ TextOnlyFromBareKey

C9_Witness ==
    /\ op = "from_str" /\ IsSchemeUrl(args.s, "lnpt")
    /\ UserIsKey(args.s) /\ IsSome(UrlOf(args.s).val.port)
    /\ IsErr(res, "HostPresent")

\* An lnpz URL with a host and an api value that names a role.
ZmqHostUrl(str) ==
    /\ IsSchemeUrl(str, "lnpz")
    /\ IsSome(UrlOf(str).val.host)
    /\ IsSome(ApiParam(UrlOf(str).val))
    /\ ZmqTypeOf(to_ascii_lowercase(ApiParam(UrlOf(str).val)[1])).ok

HostIsIp(str) == IpParse(UrlOf(str).val.host[1]).ok

\* The locator an lnpz URL with a literal IP host stands for, with or without
\* the key.
ZmqTcpOf(str, secure) ==
    LET u == UrlOf(str).val
        role == ZmqTypeOf(to_ascii_lowercase(ApiParam(u)[1])).val
        ip == IpParse(u.host[1]).val
    IN  IF secure
        THEN Ok(ZmqTcpEncrypted(PubkeyFromStr(u.username).val, role, ip, u.port))
        ELSE Ok(ZmqTcpUnencrypted(role, ip, u.port))

ZmqNoHostUrl(str) ==
    /\ IsSchemeUrl(str, "lnpz")
    /\ UrlOf(str).val.host = None
    /\ IsSome(ApiParam(UrlOf(str).val))
    /\ ZmqTypeOf(to_ascii_lowercase(ApiParam(UrlOf(str).val)[1])).ok

\* C11: an lnpz URL with no host and a valid api role parses to the
\* ZmqIpc locator of its path and role when the path is non-empty, and fails
\* with InprocRequireZmqContext when the path is empty (the serialized form of
\* an in-process locator); no input string parses to a ZmqInproc locator.
C11_ZmqNoHostParse ==
    (op = "from_str") =>
        /\ (ZmqNoHostUrl(args.s) /\ UrlOf(args.s).val.path # <<>>) =>
              res = Ok(ZmqIpc(UrlOf(args.s).val.path,
                              ZmqTypeOf(to_ascii_lowercase(
                                  ApiParam(UrlOf(args.s).val)[1])).val))
        /\ (ZmqNoHostUrl(args.s) /\ UrlOf(args.s).val.path = <<>>) =>
              IsErr(res, "InprocRequireZmqContext")
        /\ res.ok => res.val.tag # "ZmqInproc"

\* The serialized form of an in-process locator is rejected.
C11_Witness ==
    /\ op = "from_str"
    /\ args.s = to_url_string(ZmqInproc(<<"socket1">>, "Subscribe"))
    /\ ZmqNoHostUrl(args.s)
    /\ IsErr(res, "InprocRequireZmqContext")

\* The api tokens that name a role.
RoleTokens == {<<"p2p">>, <<"rpc">>, <<"sub">>, <<"esb">>}

\* C12 as stated: an lnpz URL without api parameter fails with
\* ApiTypeRequired, and one whose api value is none of p2p, rpc, sub, esb
\* (in any letter case) fails with InvalidZmqType carrying that token as
\* written in the URL.
C12_ApiRequired_Original ==
    (op = "from_str" /\ IsSchemeUrl(args.s, "lnpz")) =>
        LET api == ApiParam(UrlOf(args.s).val)
        IN  /\ api = None => IsErr(res, "ApiTypeRequired")
            /\ (IsSome(api) /\ to_ascii_lowercase(api[1]) \notin RoleTokens) =>
                  /\ IsErr(res, "InvalidZmqType")
                  /\ res.err.arg = api[1]

\* C12 amended: as stated, but InvalidZmqType carries the api value converted
\* to lower case.
C12_ApiRequired ==
    (op = "from_str" /\ IsSchemeUrl(args.s, "lnpz")) =>
        LET api == ApiParam(UrlOf(args.s).val)
        IN  /\ api = None => IsErr(res, "ApiTypeRequired")
            /\ (IsSome(api) /\ to_ascii_lowercase(api[1]) \notin RoleTokens) =>
                  /\ IsErr(res, "InvalidZmqType")
                  /\ res.err.arg = to_ascii_lowercase(api[1])

\* An upper-case api value that names no role is reported in lower case.
C12_Witness ==
    /\ op = "from_str" /\ IsSchemeUrl(args.s, "lnpz")
    /\ ApiParam(UrlOf(args.s).val) = Some(<<"XYZ">>)
    /\ IsErr(res, "InvalidZmqType")
    /\ res.err.arg = <<"xyz">>

InetSchemes == {"lnp", "lnph", "lnpws"}

\* The variant an internet scheme parses to.
InetTagOf(scheme) ==
    CASE scheme = "lnp" -> "Native"
      [] scheme = "lnph" -> "Http"
      [] scheme = "lnpws" -> "Websocket"

\* C13: for an lnp URL (likewise lnph and lnpws) a URL with no host fails
\* with HostRequired, a URL with a host whose node id is not a valid public
\* key fails with InvalidPubkey, and a URL with a valid node id and a host the
\* network-address parser accepts yields the Native (resp. Http, Websocket)
\* locator of that node id, address and optional port.
C13_InetParse ==
    (op = "from_str" /\ UrlOf(args.s).ok
        /\ UrlOf(args.s).val.scheme \in InetSchemes) =>
        LET u == UrlOf(args.s).val
        IN  /\ u.host = None => IsErr(res, "HostRequired")
            /\ (IsSome(u.host) /\ ~UserIsKey(args.s)) => IsErr(res, "InvalidPubkey")
            /\ (IsSome(u.host) /\ UserIsKey(args.s) /\ InetParse(u.host[1]).ok) =>
                  res = Ok([tag |-> InetTagOf(u.scheme),
                            pubkey |-> PubkeyFromStr(u.username).val,
                            inet |-> InetParse(u.host[1]).val,
                            port |-> u.port])

\* An lnpu URL with a valid node id (and hence a host).
UdpKeyUrl(str) ==
    /\ IsSchemeUrl(str, "lnpu")
    /\ UserIsKey(str)
    /\ IsSome(UrlOf(str).val.host)

\* The locator an lnpu URL with a host str::parse::<IpAddr> accepts stands for.
UdpOf(str) ==
    Ok(Udp(PubkeyFromStr(UrlOf(str).val.username).val,
           IpParse(UrlOf(str).val.host[1]).val, UrlOf(str).val.port))

IsForeignUrl(str) == UrlParse(str).ok /\ UrlParse(str).val.scheme \notin SchemePrefixes

BareNative(k, h, p) ==
    <<PubkeyDisplay(k), "@">> \o h
        \o (IF IsSome(p) THEN <<":", ToString(p[1])>> ELSE <<>>)

\* C16: for every string that does not start with one of the scheme
\* prefixes, from_str returns what it returns for "lnp://" followed by the
\* string; a bare node-id@host[:port] parses to the Native locator.
C16_BareNormalization ==
    (op = "from_str" /\ ~HasSchemePrefix(args.s)) =>
        /\ res = from_str(<<"lnp", ":", "//">> \o args.s)
        /\ \A k \in PublicKeys, h \in InHosts, p \in OptPorts :
              (args.s = BareNative(k, h, p) /\ InetParse(h).ok) =>
                  res = Ok(Native(k, InetParse(h).val, p))

\* A bare node-id@host:port string parsed to the Native locator.
C16_Witness ==
    /\ op = "from_str" /\ ~HasSchemePrefix(args.s)
    /\ \E k \in PublicKeys : args.s = BareNative(k, <<"127.0.0.1">>, Some(1))
    /\ res.ok /\ res.val.tag = "Native" /\ res.val.port = Some(1)

\* The role each api token decodes to.
RoleOfToken ==
    [t \in {"p2p", "rpc", "sub", "esb"} |->
        CASE t = "p2p" -> "PeerConnecting"
          [] t = "rpc" -> "Client"
          [] t = "sub" -> "Subscribe"
          [] t = "esb" -> "EsbService"]

\* C17: the api token is matched without regard to letter case; p2p decodes
\* to PeerConnecting, rpc to Client, sub to Subscribe, esb to EsbService; an
\* api value that is one of the four tokens in any letter case is never
\* rejected as InvalidZmqType, and no parsed locator carries PeerListening or
\* Server.
C17_RoleDecoding ==
    (op = "from_str") =>
        /\ (res.ok /\ "api" \in DOMAIN res.val) =>
              /\ \E t \in DOMAIN RoleOfToken :
                    /\ to_ascii_lowercase(ApiParam(UrlOf(args.s).val)[1]) = <<t>>
                    /\ res.val.api = RoleOfToken[t]
              /\ res.val.api \notin {"PeerListening", "Server"}
        /\ (IsSchemeUrl(args.s, "lnpz") /\ IsSome(ApiParam(UrlOf(args.s).val))
                /\ \E t \in DOMAIN RoleOfToken :
                      to_ascii_lowercase(ApiParam(UrlOf(args.s).val)[1]) = <<t>>)
              => ~IsErr(res, "InvalidZmqType")

\* An upper-case P2P decoded to the connecting role.
C17_Witness ==
    /\ op = "from_str"
    /\ IsSchemeUrl(args.s, "lnpz")
    /\ ApiParam(UrlOf(args.s).val) = Some(<<"P2P">>)
    /\ res.ok /\ res.val.api = "PeerConnecting"

\* str with ":p" put directly after the host, i.e. before the "/" that ends
\* the authority or at the end of the string.
PortAfterHost(str, p) ==
    SubSeq(str, 1, FirstIn(str, {"/"}) - 1) \o <<":", ToString(p)>>
        \o SeqFrom(str, FirstIn(str, {"/"}))

\* C18: with_port(p) on a variant with a port slot returns a locator of the
\* same variant whose port is Some(p), whatever port it had before, with node
\* id, address, socket name and role unchanged; its serialization is that of
\* the locator without port with ":p" directly after the host.
C18_WithPortSets ==
    (op = "with_port" /\ args.a.tag \in PortTags) =>
        /\ res.tag = args.a.tag
        /\ port(res) = Some(args.port)
        /\ node_id(res) = node_id(args.a)
        /\ inet_addr(res) = inet_addr(args.a)
        /\ socket_name(res) = socket_name(args.a)
        /\ api_type(res) = api_type(args.a)
        /\ to_url_string(res) =
              PortAfterHost(to_url_string([args.a EXCEPT !.port = None]), args.port)

\* A queue locator that had another port gets the new one.
C18_Witness ==
    /\ op = "with_port"
    /\ args.a.tag = "ZmqTcpEncrypted"
    /\ IsSome(args.a.port) /\ args.a.port # Some(args.port)
    /\ port(res) = Some(args.port)

\* The value of field f of x as an optional, None when x has no such field.
SlotOf(x, f) == IF f \in DOMAIN x THEN Some(x[f]) ELSE None

\* C19: components() fills exactly the slots of the fields the variant
\* carries: the node id, the address (the IP of Udp and of the two Zmq TCP
\* variants lifted into a network address), the port, the socket path or
\* name, the role; every other slot is None.  Each accessor returns its slot.
C19_Components ==
    (op = "components") =>
        /\ res[1] = SlotOf(args.a, "pubkey")
        /\ res[2] = IF "inet" \in DOMAIN args.a THEN Some(args.a.inet)
                    ELSE IF "ip" \in DOMAIN args.a THEN Some(InetFromIp(args.a.ip))
                    ELSE None
        /\ res[3] = IF "port" \in DOMAIN args.a THEN args.a.port ELSE None
        /\ res[4] = IF "path" \in DOMAIN args.a THEN Some(args.a.path)
                    ELSE SlotOf(args.a, "name")
        /\ res[5] = SlotOf(args.a, "api")
        /\ (args.a.tag = "Text") => res = <<Some(args.a.pubkey), None, None, None, None>>
        /\ (args.a.tag = "ZmqTcpUnencrypted") => res[1] = None /\ res[4] = None
        /\ node_id(args.a) = res[1]
        /\ inet_addr(args.a) = res[2]
        /\ port(args.a) = res[3]
        /\ socket_name(args.a) = res[4]
        /\ api_type(args.a) = res[5]

\* The IP address of a Udp locator in the address slot.
C19_Witness ==
    /\ op = "components"
    /\ args.a.tag = "Udp"
    /\ res[2] = Some(InetFromIp(args.a.ip))
    /\ res[4] = None /\ res[5] = None

\* The token each role is serialized as.
TokenOfRole ==
    [r \in ApiTypes |->
        CASE r \in {"PeerListening", "PeerConnecting"} -> "p2p"
          [] r \in {"Client", "Server"} -> "rpc"
          [] r = "Subscribe" -> "sub"
          [] r = "EsbService" -> "esb"]

\* C20: the serialization of a queue locator writes its role as p2p for
\* PeerListening and PeerConnecting, rpc for Client and Server, sub for
\* Subscribe and esb for EsbService, as the value of the api parameter; two
\* queue locators that differ only in the roles Client and Server serialize
\* to the same string.
C20_RoleSerialized ==
    (op = "to_url_string" /\ args.a.tag \in ZmqTags) =>
        /\ FirstIn(res, {"="}) < Len(res)
        /\ SubSeq(res, FirstIn(res, {"="}) - 2, FirstIn(res, {"="}) + 1)
              = <<"?", "api", "=", TokenOfRole[args.a.api]>>
        /\ \A y \in NodeLocators :
              (SameButRole(args.a, y) /\ {args.a.api, y.api} = {"Client", "Server"})
                  => to_url_string(y) = res

\* A locator with role Server serialized with the token rpc.
C20_Witness ==
    /\ op = "to_url_string"
    /\ args.a.tag = "ZmqTcpUnencrypted"
    /\ args.a.api = "Server"
    /\ res = to_url_string([args.a EXCEPT !.api = "Client"])

\* C21: every locator has an internet address or a socket name, so the
\* alternate Display formatting never panics on the missing socket name.
C21_AlternateNeverPanics ==
    (op = "fmt_alternate") =>
        /\ IsSome(inet_addr(args.a)) \/ IsSome(socket_name(args.a))
        /\ res.ok

\* C22: the locator equality is an equivalence relation: reflexive,
\* symmetric, and transitive, also across the merge of the roles
\* PeerListening and PeerConnecting.
C22_EqEquivalence ==
    (op = "eq") =>
        /\ (args.a = args.b) => res
        /\ res <=> eq(args.b, args.a)
        /\ res => \A c \in NodeLocators : eq(args.b, c) => eq(args.a, c)

\* C23: the conversion to a local address respects the locator equality:
\* every locator equal to the converted one converts to the same result,
\* the same local address or the failure UnsupportedForLocalAddr, also when
\* the two differ in the roles PeerListening and PeerConnecting.
C23_LocalAddrRespectsEq ==
    (op = "local_addr") =>
        /\ res.ok \/ IsErr(res, "UnsupportedForLocalAddr")
        /\ \A y \in NodeLocators :
              (eq(args.a, y) \/ eq(y, args.a)) => local_addr_try_from(y) = res

\* A listening queue locator converted to the local address of its equal
\* with the connecting role.
C23_Witness ==
    /\ op = "local_addr"
    /\ args.a.tag = "ZmqTcpUnencrypted"
    /\ args.a.api = "PeerListening"
    /\ eq(args.a, [args.a EXCEPT !.api = "PeerConnecting"])
    /\ res.ok
    /\ res = local_addr_try_from([args.a EXCEPT !.api = "PeerConnecting"])

\* C24: whenever parsing succeeds, the url_scheme() of the resulting locator
\* is the scheme of the parsed URL: the scheme of the Url handed to try_from,
\* the scheme prefix of the string handed to from_str, lnp for a bare string.
C24_SchemeMatches ==
    /\ (op = "try_from_url" /\ res.ok) => url_scheme(res.val) = args.u.scheme
    /\ (op = "from_str" /\ res.ok) =>
          url_scheme(res.val) = (IF HasSchemePrefix(args.s) THEN args.s[1] ELSE "lnp")

\* A bare string parsed to a locator of scheme lnp.
C24_Witness ==
    /\ op = "from_str" /\ res.ok
    /\ ~HasSchemePrefix(args.s)
    /\ url_scheme(res.val) = "lnp"

====
